---- MODULE Spec2Model ----
(***************************************************************************)
(* A model of api-tester.go: the command line parsing of main, the         *)
(* partition of totalCalls over numThreads goroutines, the goroutines      *)
(* running fetchData under the shared sync.Mutex and sync.WaitGroup, and   *)
(* the statistics and summary main prints after wg.Wait.                   *)
(*                                                                         *)
(* Strings are sequences of one-character strings, so that HasPrefix,      *)
(* strconv.Atoi and time.ParseDuration are computed character by           *)
(* character.  Durations are counted in microseconds.  A float64 quotient  *)
(* a / b is kept as the pair [num |-> a, den |-> b]: 0/0 is NaN.           *)
(***************************************************************************)
EXTENDS Integers, Sequences, FiniteSets, TLC

(***************************************************************************)
(* Bounds of the exploration.                                              *)
(***************************************************************************)
\* the longest argument list (os.Args[1:]) drawn from every token sequence
MaxArgs == 3
\* the largest value of -totalCalls for which the goroutines are explored
MaxCalls == 2
\* the largest value of -numThreads for which the goroutines are explored
MaxThreads == 2

(***************************************************************************)
(* Strings.                                                                *)
(***************************************************************************)
Digits == {"0", "1", "2", "3", "4", "5", "6", "7", "8", "9"}

DigitVal(c) ==
  CASE c = "0" -> 0 [] c = "1" -> 1 [] c = "2" -> 2 [] c = "3" -> 3
    [] c = "4" -> 4 [] c = "5" -> 5 [] c = "6" -> 6 [] c = "7" -> 7
    [] c = "8" -> 8 [] c = "9" -> 9

DigitChar(d) ==
  CASE d = 0 -> "0" [] d = 1 -> "1" [] d = 2 -> "2" [] d = 3 -> "3"
    [] d = 4 -> "4" [] d = 5 -> "5" [] d = 6 -> "6" [] d = 7 -> "7"
    [] d = 8 -> "8" [] d = 9 -> "9"

\* strings.HasPrefix
HasPrefix(s, prefix) ==
  /\ Len(s) >= Len(prefix)
  /\ SubSeq(s, 1, Len(prefix)) = prefix

\* strings.ToLower, on the letters the model's URLs use
ToLowerChar(c) ==
  CASE c = "H" -> "h" [] c = "T" -> "t" [] c = "P" -> "p" [] c = "S" -> "s"
    [] OTHER -> c

ToLower(s) == [k \in 1..Len(s) |-> ToLowerChar(s[k])]

\* the suffix of s from its first character that is not a digit
RECURSIVE DropDigits(_)
DropDigits(s) ==
  IF s # <<>> /\ Head(s) \in Digits THEN DropDigits(Tail(s)) ELSE s

\* the value of a string of digits
RECURSIVE DigitsValue(_, _)
DigitsValue(s, acc) ==
  IF s = <<>> THEN acc ELSE DigitsValue(Tail(s), acc * 10 + DigitVal(Head(s)))

RECURSIVE Pow10(_)
Pow10(n) == IF n = 0 THEN 1 ELSE 10 * Pow10(n - 1)

\* decimal text of a natural number, and of an integer (the inverse of Atoi)
RECURSIVE NatText(_)
NatText(n) ==
  IF n < 10 THEN <<DigitChar(n)>> ELSE Append(NatText(n \div 10), DigitChar(n % 10))

IntText(n) == IF n < 0 THEN <<"-">> \o NatText(0 - n) ELSE NatText(n)

(***************************************************************************)
(* strconv.Atoi: an optional sign, then one or more digits and nothing     *)
(* else.  The result is [ok, val]; ok = FALSE is a non-nil error.          *)
(***************************************************************************)
Atoi(s) ==
  LET signed == s # <<>> /\ Head(s) \in {"-", "+"}
      body   == IF signed THEN Tail(s) ELSE s
      valid  == body # <<>> /\ \A k \in 1..Len(body) : body[k] \in Digits
      mag    == IF valid THEN DigitsValue(body, 0) ELSE 0
  IN  [ok  |-> valid,
       val |-> IF signed /\ Head(s) = "-" THEN 0 - mag ELSE mag]

(***************************************************************************)
(* time.ParseDuration, in microseconds: an optional sign, then one or more *)
(* groups of a decimal number (digits, an optional '.', digits; at least   *)
(* one digit) followed by a unit.                                          *)
(* The units are those whose value is a whole number of microseconds and   *)
(* fits the checker's integers.                                            *)
(***************************************************************************)
UnitKnown(u) == u \in {<<"u", "s">>, <<"m", "s">>, <<"s">>, <<"m">>}

UnitValue(u) ==
  CASE u = <<"u", "s">> -> 1
    [] u = <<"m", "s">> -> 1000
    [] u = <<"s">>      -> 1000 * 1000
    [] u = <<"m">>      -> 60 * 1000 * 1000

\* the suffix of s from its first character that is a digit or '.'
RECURSIVE DropUnit(_)
DropUnit(s) ==
  IF s # <<>> /\ Head(s) \notin Digits /\ Head(s) # "."
  THEN DropUnit(Tail(s))
  ELSE s

\* the loop of ParseDuration over the remaining text s, d the sum so far
RECURSIVE ParseDurationLoop(_, _)
ParseDurationLoop(s, d) ==
  IF s = <<>> THEN [ok |-> TRUE, val |-> d]
  ELSE IF ~(Head(s) = "." \/ Head(s) \in Digits) THEN [ok |-> FALSE, val |-> 0]
  ELSE
    LET s1    == DropDigits(s)
        pre   == Len(s1) # Len(s)
        v     == DigitsValue(SubSeq(s, 1, Len(s) - Len(s1)), 0)
        dot   == s1 # <<>> /\ Head(s1) = "."
        s2    == IF dot THEN Tail(s1) ELSE s1
        s3    == IF dot THEN DropDigits(s2) ELSE s2
        post  == dot /\ Len(s3) # Len(s2)
        fdig  == SubSeq(s2, 1, Len(s2) - Len(s3))
        f     == DigitsValue(fdig, 0)
        scale == Pow10(Len(fdig))
        s4    == DropUnit(s3)
        u     == SubSeq(s3, 1, Len(s3) - Len(s4))
    IN  IF ~pre /\ ~post THEN [ok |-> FALSE, val |-> 0]
        ELSE IF u = <<>> THEN [ok |-> FALSE, val |-> 0]
        ELSE IF ~UnitKnown(u) THEN [ok |-> FALSE, val |-> 0]
        ELSE ParseDurationLoop(s4, d + v * UnitValue(u) + (f * UnitValue(u)) \div scale)

ParseDuration(s) ==
  LET signed == s # <<>> /\ Head(s) \in {"-", "+"}
      neg    == signed /\ Head(s) = "-"
      body   == IF signed THEN Tail(s) ELSE s
      r      == ParseDurationLoop(body, 0)
  IN  IF body = <<"0">> THEN [ok |-> TRUE, val |-> 0]
      ELSE IF body = <<>> THEN [ok |-> FALSE, val |-> 0]
      ELSE IF neg THEN [ok |-> r.ok, val |-> 0 - r.val]
      ELSE r

\* n * time.Millisecond
Millisecond(n) == n * 1000

(***************************************************************************)
(* The command line.  os.Args[0] is the program name; Arg(k) is           *)
(* os.Args[k] (TLA+ sequences start at 1).                                 *)
(***************************************************************************)
ProgName     == <<"a", "p", "i">>
URLGood      == <<"h", "t", "t", "p", ":", "/", "/", "a">>
URLHttps     == <<"h", "t", "t", "p", "S", ":", "/", "/", "a">>
\* begins with "http", and url.Parse rejects it: invalid URL escape "%"
URLBadEscape == <<"h", "t", "t", "p", ":", "/", "/", "%">>
URLNoPrefix  == <<"f", "t", "p", ":", "/", "/", "a">>
HelpShort    == <<"-", "?">>
HelpLong     == <<"-", "-", "h", "e", "l", "p">>
FlagTotalCalls     == <<"-", "t", "o", "t", "a", "l", "C", "a", "l", "l", "s">>
FlagNumThreads     == <<"-", "n", "u", "m", "T", "h", "r", "e", "a", "d", "s">>
FlagSleepTime      == <<"-", "s", "l", "e", "e", "p", "T", "i", "m", "e">>
FlagRequestTimeOut == <<"-", "r", "e", "q", "u", "e", "s", "t", "T", "i", "m", "e", "O", "u", "t">>
FlagConnectTimeOut == <<"-", "c", "o", "n", "n", "e", "c", "t", "T", "i", "m", "e", "O", "u", "t">>
FlagReuseConnects  == <<"-", "r", "e", "u", "s", "e", "C", "o", "n", "n", "e", "c", "t", "s">>
FlagKeepConnectsOpen ==
  <<"-", "k", "e", "e", "p", "C", "o", "n", "n", "e", "c", "t", "s", "O", "p", "e", "n">>

IntFlags      == {FlagTotalCalls, FlagNumThreads}
DurationFlags == {FlagSleepTime, FlagRequestTimeOut, FlagConnectTimeOut}
ValueFlags    == IntFlags \cup DurationFlags

\* the tokens of the argument lists explored in full
Tokens ==
  {URLGood, URLHttps, URLBadEscape, URLNoPrefix, HelpShort, HelpLong,
   FlagTotalCalls, FlagNumThreads, FlagSleepTime, FlagRequestTimeOut,
   FlagConnectTimeOut, FlagReuseConnects, FlagKeepConnectsOpen,
   <<"0">>, <<"2">>, <<"-", "1">>, <<"1", ".", "5">>}

\* every argument list of at most MaxArgs tokens
ShortLists == UNION {[1..n -> Tokens] : n \in 0..MaxArgs}

\* the argument lists that set both counts, within the explored range
RunOptions ==
  {<<>>, <<FlagKeepConnectsOpen>>, <<FlagReuseConnects>>,
   <<FlagSleepTime, <<"1", ".", "5">> >>}

RunLists ==
  {<<u, FlagTotalCalls, IntText(c), FlagNumThreads, IntText(n)>> \o o :
     u \in {URLGood, URLBadEscape}, c \in -1..MaxCalls, n \in -1..MaxThreads,
     o \in RunOptions}

ArgLists == {<<ProgName>> \o l : l \in ShortLists \cup RunLists}

(***************************************************************************)
(* http.NewRequest fails when url.Parse does; of its reasons the model     *)
(* keeps the invalid percent escape.                                       *)
(***************************************************************************)
HexDigits == Digits \cup {"a", "b", "c", "d", "e", "f", "A", "B", "C", "D", "E", "F"}

NewRequestFails(u) ==
  \E k \in 1..Len(u) :
    /\ u[k] = "%"
    /\ ~(k + 2 <= Len(u) /\ u[k + 1] \in HexDigits /\ u[k + 2] \in HexDigits)

(***************************************************************************)
(* Go's integer division truncates toward zero and the remainder takes the *)
(* sign of the dividend; b # 0.                                            *)
(***************************************************************************)
Abs(a) == IF a < 0 THEN 0 - a ELSE a

Quot(a, b) ==
  IF (a < 0) = (b < 0) THEN Abs(a) \div Abs(b) ELSE 0 - (Abs(a) \div Abs(b))

Rem(a, b) == a - b * Quot(a, b)

\* float64 division a / b, kept as a fraction: 0/0 is NaN, a/0 is +-Inf
FloatDiv(a, b) == [num |-> a, den |-> b]
IsNaN(f) == f.num = 0 /\ f.den = 0
NoFloat  == [num |-> 0, den |-> 1]

(***************************************************************************)
(* The state.                                                              *)
(***************************************************************************)
VARIABLES
  osArgs,            \* os.Args
  proc,              \* the process: "running", "exited" (main returned), "panic"
  pc,                \* where main is
  argi,              \* the loop variable i of main's argument loop
  url, totalCalls, numThreads, sleepTime, requestTimeOut, connectTimeOut,
  reuseConnects, keepConnectsOpen,
  tr,                \* the http.Transport and the client's Timeout, once built
  callsPerGoroutine, remainderCalls,
  launchI,           \* the loop variable i of main's launch loop
  wg,                \* the WaitGroup's counter
  mu,                \* TRUE when the Mutex is locked
  responseTimes,     \* the shared slice: [thread, idx, ms] per element
  stdout,            \* the lines printed, in order
  stats,             \* totalTime, requestsPerSecond, averageResponseTime
  w                  \* the goroutines running fetchData, by threadID

config == <<url, totalCalls, numThreads, sleepTime, requestTimeOut, connectTimeOut,
            reuseConnects, keepConnectsOpen>>
engine == <<tr, callsPerGoroutine, remainderCalls, launchI, stats>>
shared == <<wg, mu, responseTimes, w>>
vars   == <<osArgs, proc, pc, argi, config, engine, shared, stdout>>

Threads == 0..(MaxThreads - 1)

NArgs  == Len(osArgs)
Arg(k) == osArgs[k + 1]

\* one printed line
Line(kind, thread, idx, text, detail, ms) ==
  [kind |-> kind, thread |-> thread, idx |-> idx, text |-> text,
   detail |-> detail, ms |-> ms]

\* a line of main
MainLine(kind, text) == Line(kind, -1, -1, text, "", 0)

\* fetchData's locals before the goroutine exists
NoWorker ==
  [pc |-> "none", numCalls |-> 0, i |-> 0, request |-> "none", status |-> "",
   header |-> "", resp |-> "nil", err |-> "nil", responseTime |-> 0,
   calls |-> <<>>, doErr |-> "nil", responses |-> 0, drained |-> 0, closed |-> 0,
   slept |-> 0]

NoTransport ==
  [built |-> FALSE, MaxIdleConns |-> 0, IdleConnTimeout |-> 0,
   DisableCompression |-> FALSE, DisableKeepAlives |-> FALSE,
   InsecureSkipVerify |-> FALSE, Timeout |-> 0, idleClosed |-> FALSE]

NoStats ==
  [totalTime |-> 0, requestsPerSecond |-> NoFloat, averageResponseTime |-> NoFloat]

DefaultTotalCalls == 10000
DefaultNumThreads == 12
DefaultRequestTimeOutMs == 10000

Init ==
  /\ osArgs \in ArgLists
  /\ proc = "running"
  /\ pc = "checkArgs"
  /\ argi = 2
  /\ url = <<>>
  /\ totalCalls = DefaultTotalCalls
  /\ numThreads = DefaultNumThreads
  /\ sleepTime = Millisecond(0)
  /\ requestTimeOut = Millisecond(DefaultRequestTimeOutMs)
  /\ connectTimeOut = Millisecond(DefaultRequestTimeOutMs) * 3
  /\ reuseConnects = FALSE
  /\ keepConnectsOpen = FALSE
  /\ tr = NoTransport
  /\ callsPerGoroutine = 0
  /\ remainderCalls = 0
  /\ launchI = 0
  /\ wg = 0
  /\ mu = FALSE
  /\ responseTimes = <<>>
  /\ stdout = <<>>
  /\ stats = NoStats
  /\ w = [t \in Threads |-> NoWorker]

(***************************************************************************)
(* main: the argument checks.                                              *)
(***************************************************************************)
\* main returns: the process exits
MainReturns(lines) ==
  /\ stdout' = stdout \o lines
  /\ pc' = "returned"
  /\ proc' = "exited"

\* if len(os.Args) < 2
MainCheckArgs ==
  /\ proc = "running" /\ pc = "checkArgs"
  /\ IF NArgs < 2
     THEN MainReturns(<<MainLine("errNoArgs", <<>>), MainLine("usage", <<>>)>>)
     ELSE pc' = "checkHelp" /\ UNCHANGED <<proc, stdout>>
  /\ UNCHANGED <<osArgs, argi, config, engine, shared>>

\* for _, arg := range os.Args[1:]
MainCheckHelp ==
  /\ proc = "running" /\ pc = "checkHelp"
  /\ IF \E k \in 1..(NArgs - 1) : Arg(k) = HelpShort \/ Arg(k) = HelpLong
     THEN MainReturns(<<MainLine("usage", <<>>)>>)
     ELSE pc' = "checkURL" /\ UNCHANGED <<proc, stdout>>
  /\ UNCHANGED <<osArgs, argi, config, engine, shared>>

\* if strings.HasPrefix(os.Args[1], "http"); the error line prints url, still ""
MainCheckURL ==
  /\ proc = "running" /\ pc = "checkURL"
  /\ IF HasPrefix(Arg(1), <<"h", "t", "t", "p">>)
     THEN /\ url' = Arg(1)
          /\ pc' = "parseArgs"
          /\ UNCHANGED <<proc, stdout>>
     ELSE /\ MainReturns(<<MainLine("errURL", url), MainLine("usage", <<>>)>>)
          /\ UNCHANGED url
  /\ UNCHANGED <<osArgs, argi, totalCalls, numThreads, sleepTime, requestTimeOut,
                 connectTimeOut, reuseConnects, keepConnectsOpen, engine, shared>>

\* the value a flag's token parses to
FlagValue(flag, token) ==
  IF flag \in IntFlags THEN Atoi(token) ELSE ParseDuration(token \o <<"m", "s">>)

\* os.Args[i] of a flag that takes a value, when there is one
HasValue(i) == i + 1 < NArgs

\* one iteration of for i := 2; i < len(os.Args); i++
MainParseArg ==
  /\ proc = "running" /\ pc = "parseArgs"
  /\ argi < NArgs
  /\ LET a == Arg(argi)
     IN  IF a \in ValueFlags
         THEN IF ~HasValue(argi)
              THEN \* i++; os.Args[i]: index out of range
                   /\ proc' = "panic"
                   /\ argi' = argi + 1
                   /\ UNCHANGED <<pc, config, stdout>>
              ELSE LET r == FlagValue(a, Arg(argi + 1))
                   IN  /\ totalCalls' = IF a = FlagTotalCalls THEN r.val ELSE totalCalls
                       /\ numThreads' = IF a = FlagNumThreads THEN r.val ELSE numThreads
                       /\ sleepTime' = IF a = FlagSleepTime THEN r.val ELSE sleepTime
                       /\ requestTimeOut' =
                            IF a = FlagRequestTimeOut THEN r.val ELSE requestTimeOut
                       /\ connectTimeOut' =
                            IF a = FlagConnectTimeOut THEN r.val ELSE connectTimeOut
                       /\ UNCHANGED <<url, reuseConnects, keepConnectsOpen>>
                       /\ IF r.ok
                          THEN /\ argi' = argi + 2
                               /\ UNCHANGED <<proc, pc, stdout>>
                          ELSE /\ argi' = argi + 1
                               /\ MainReturns(<<MainLine("errInteger", Arg(argi + 1)),
                                                MainLine("usage", <<>>)>>)
         ELSE /\ reuseConnects' = (reuseConnects \/ a = FlagReuseConnects)
              /\ keepConnectsOpen' = (keepConnectsOpen \/ a = FlagKeepConnectsOpen)
              /\ argi' = argi + 1
              /\ UNCHANGED <<proc, pc, stdout, url, totalCalls, numThreads, sleepTime,
                             requestTimeOut, connectTimeOut>>
  /\ UNCHANGED <<osArgs, engine, shared>>

\* the argument loop ends: i < len(os.Args) is false
MainParseDone ==
  /\ proc = "running" /\ pc = "parseArgs"
  /\ argi >= NArgs
  /\ pc' = "transport"
  /\ UNCHANGED <<osArgs, proc, argi, config, engine, shared, stdout>>

(***************************************************************************)
(* main: the client, the partition, the goroutines, the summary.           *)
(***************************************************************************)
\* tr := &http.Transport{...}; client := &http.Client{Transport: tr, Timeout: ...}
MainBuildTransport ==
  /\ proc = "running" /\ pc = "transport"
  /\ tr' = [built |-> TRUE,
            MaxIdleConns |-> numThreads * 10,
            IdleConnTimeout |-> connectTimeOut,
            DisableCompression |-> TRUE,
            DisableKeepAlives |-> ~reuseConnects,
            InsecureSkipVerify |-> HasPrefix(ToLower(url), <<"h", "t", "t", "p", "s">>),
            Timeout |-> requestTimeOut,
            idleClosed |-> FALSE]
  /\ pc' = "partition"
  /\ UNCHANGED <<osArgs, proc, argi, config, callsPerGoroutine, remainderCalls,
                 launchI, stats, shared, stdout>>

\* callsPerGoroutine := totalCalls / numThreads; remainderCalls := totalCalls % numThreads
MainPartition ==
  /\ proc = "running" /\ pc = "partition"
  /\ IF numThreads = 0
     THEN \* integer divide by zero
          /\ proc' = "panic"
          /\ UNCHANGED <<pc, callsPerGoroutine, remainderCalls>>
     ELSE /\ callsPerGoroutine' = Quot(totalCalls, numThreads)
          /\ remainderCalls' = Rem(totalCalls, numThreads)
          /\ pc' = "launch"
          /\ UNCHANGED proc
  /\ UNCHANGED <<osArgs, argi, config, tr, launchI, stats, shared, stdout>>

\* an off-by-one in the remainder test: i <= remainderCalls
NumCallsOffByOne(i, base, remainder) == IF i <= remainder THEN base + 1 ELSE base

\* numCalls := callsPerGoroutine; if i < remainderCalls { numCalls++ }
NumCalls(i, base, remainder) == IF i < remainder THEN base + 1 ELSE base

\* the goroutines are explored for counts within the bounds
InBounds == totalCalls <= MaxCalls /\ numThreads <= MaxThreads

\* one iteration of the launch loop: wg.Add(1); go fetchData(...)
MainLaunch ==
  /\ proc = "running" /\ pc = "launch"
  /\ launchI < numThreads
  /\ InBounds
  /\ wg' = wg + 1
  /\ w' = [w EXCEPT ![launchI] =
             [NoWorker EXCEPT !.pc = "start",
                              !.numCalls = NumCalls(launchI, callsPerGoroutine,
                                                    remainderCalls)]]
  /\ launchI' = launchI + 1
  /\ UNCHANGED <<osArgs, proc, pc, argi, config, tr, callsPerGoroutine,
                 remainderCalls, stats, mu, responseTimes, stdout>>

\* the launch loop ends: i < numThreads is false
MainLaunchDone ==
  /\ proc = "running" /\ pc = "launch"
  /\ launchI >= numThreads
  /\ pc' = "wait"
  /\ UNCHANGED <<osArgs, proc, argi, config, engine, shared, stdout>>

\* wg.Wait() returns when the counter is zero
WaitReturns(counter) == counter = 0

MainWait ==
  /\ proc = "running" /\ pc = "wait"
  /\ WaitReturns(wg)
  /\ pc' = "stats"
  /\ UNCHANGED <<osArgs, proc, argi, config, engine, shared, stdout>>

\* the wall-clock seconds a run can have taken
TotalTimes == {1, 2}

RECURSIVE SumMs(_)
SumMs(rts) == IF rts = <<>> THEN 0 ELSE Head(rts).ms + SumMs(Tail(rts))

\* averageResponseTime := totalResponseTime / float64(len(responseTimes))
Average(rts) == FloatDiv(SumMs(rts), Len(rts))

\* totalTime, requestsPerSecond, the sum over responseTimes and the average
MainStats ==
  /\ proc = "running" /\ pc = "stats"
  /\ \E tt \in TotalTimes :
       stats' = [totalTime |-> tt,
                 requestsPerSecond |-> FloatDiv(totalCalls, tt),
                 averageResponseTime |-> Average(responseTimes)]
  /\ pc' = "summary"
  /\ UNCHANGED <<osArgs, proc, argi, config, tr, callsPerGoroutine, remainderCalls,
                 launchI, shared, stdout>>

\* the summary goes straight on to the last line
AfterSummaryNoClose == "finish"

\* what follows the summary: client.CloseIdleConnections()
AfterSummary == "closeIdle"

\* the three Printf of the summary
MainSummary ==
  /\ proc = "running" /\ pc = "summary"
  /\ stdout' = stdout \o <<MainLine("totalTime", <<>>), MainLine("average", <<>>),
                           MainLine("perSecond", <<>>)>>
  /\ pc' = AfterSummary
  /\ UNCHANGED <<osArgs, proc, argi, config, engine, shared>>

\* client.CloseIdleConnections()
MainCloseIdle ==
  /\ proc = "running" /\ pc = "closeIdle"
  /\ tr' = [tr EXCEPT !.idleClosed = TRUE]
  /\ pc' = "finish"
  /\ UNCHANGED <<osArgs, proc, argi, config, callsPerGoroutine, remainderCalls,
                 launchI, stats, shared, stdout>>

\* fmt.Println("All threads have finished."); main returns.  A goroutine that is
\* panicking when main returns still ends the process with its panic.
MainFinish ==
  /\ proc = "running" /\ pc = "finish"
  /\ stdout' = Append(stdout, MainLine("finished", <<>>))
  /\ pc' = "returned"
  /\ proc' = IF \E t \in Threads : w[t].pc = "fatal" THEN "panic" ELSE "exited"
  /\ UNCHANGED <<osArgs, argi, config, engine, shared>>

(***************************************************************************)
(* fetchData, goroutine t.                                                 *)
(***************************************************************************)
wUnchanged == <<osArgs, proc, pc, argi, config, engine>>

\* request, err := http.NewRequest("GET", url, nil); the error is printed
WNewRequest(t) ==
  /\ proc = "running" /\ w[t].pc = "start"
  /\ IF NewRequestFails(url)
     THEN /\ w' = [w EXCEPT ![t].request = "nil", ![t].err = "NewRequest",
                            ![t].pc = "header"]
          /\ stdout' = Append(stdout, Line("errRequest", t, -1, <<>>, "NewRequest", 0))
     ELSE /\ w' = [w EXCEPT ![t].request = "GET", ![t].pc = "header"]
          /\ UNCHANGED stdout
  /\ UNCHANGED <<wUnchanged, wg, mu, responseTimes>>

\* the position after the loop test i < numCalls
LoopOrReturn(i, numCalls) == IF i < numCalls THEN "do" ELSE "defer"

\* request.Header.Add("Connection", ...): a nil request is a nil dereference, and
\* the goroutine panics; then the first loop test
WHeader(t) ==
  /\ proc = "running" /\ w[t].pc = "header"
  /\ IF w[t].request = "nil"
     THEN w' = [w EXCEPT ![t].pc = "panicking"]
     ELSE w' = [w EXCEPT ![t].header = IF reuseConnects THEN "keep-alive" ELSE "close",
                         ![t].pc = LoopOrReturn(0, w[t].numCalls)]
  /\ UNCHANGED <<wUnchanged, wg, mu, responseTimes, stdout>>

\* what httpClient.Do returns and the milliseconds it took: a response and no
\* error, no response and an error, or (a failed redirect) both.  Each outcome
\* is given one duration, and no two outcomes the same.
DoOutcomes ==
  {[resp |-> "200 OK", err |-> "nil", ms |-> 1],
   [resp |-> "nil", err |-> "Do", ms |-> 3],
   [resp |-> "302 Found", err |-> "Do", ms |-> 2]}

\* startTime; resp, err := httpClient.Do(request); endTime; responseTime
WDo(t) ==
  /\ proc = "running" /\ w[t].pc = "do"
  /\ \E o \in DoOutcomes :
       w' = [w EXCEPT ![t].resp = o.resp, ![t].err = o.err,
                      ![t].responseTime = o.ms,
                      ![t].calls = Append(@, w[t].i),
                      ![t].doErr = o.err,
                      ![t].responses = IF o.resp # "nil" THEN @ + 1 ELSE @,
                      ![t].pc = "body"]
  /\ UNCHANGED <<wUnchanged, wg, mu, responseTimes, stdout>>

\* the body is read and closed whatever -keepConnectsOpen says
ReadsBodyAlways(resp, keepOpen) == resp # "nil"

\* if resp != nil { ... if !keepConnectsOpen { io.Copy; resp.Body.Close } }
ReadsBody(resp, keepOpen) == resp # "nil" /\ ~keepOpen

\* the record step is skipped
AfterBodyNoRecord == "sleep"

\* what follows the handling of the body: mu.Lock()
AfterBody == "lock"

\* if resp != nil { status = resp.Status; if !keepConnectsOpen { io.Copy; Close } }
\* drained counts the io.Copy(io.Discard, resp.Body) that have run to their end
\* (EOF or a read error), closed the resp.Body.Close()
WBody(t) ==
  /\ proc = "running" /\ w[t].pc = "body"
  /\ IF w[t].resp = "nil"
     THEN w' = [w EXCEPT ![t].pc = AfterBody]
     ELSE IF ~ReadsBody(w[t].resp, keepConnectsOpen)
     THEN w' = [w EXCEPT ![t].status = w[t].resp, ![t].pc = AfterBody]
     ELSE \E copyErr \in {"nil", "Copy"}, closeErr \in {"nil", "Close"} :
            w' = [w EXCEPT ![t].status = w[t].resp,
                           ![t].err = closeErr,
                           ![t].drained = @ + 1,
                           ![t].closed = @ + 1,
                           ![t].pc = AfterBody]
  /\ UNCHANGED <<wUnchanged, wg, mu, responseTimes, stdout>>

\* a Lock that does not wait for the mutex
CanLockAlways(locked) == TRUE

\* mu.Lock() returns when the mutex is free
CanLock(locked) == ~locked

WLock(t) ==
  /\ proc = "running" /\ w[t].pc = "lock"
  /\ CanLock(mu)
  /\ mu' = TRUE
  /\ w' = [w EXCEPT ![t].pc = "log"]
  /\ UNCHANGED <<wUnchanged, wg, responseTimes, stdout>>

\* if err != nil { Printf("... Request failed ...") } else { Printf("... Success ...") }
WLog(t) ==
  /\ proc = "running" /\ w[t].pc = "log"
  /\ stdout' = Append(stdout,
                 IF w[t].err # "nil"
                 THEN Line("failed", t, w[t].i, <<>>, w[t].err, w[t].responseTime)
                 ELSE Line("success", t, w[t].i, <<>>, w[t].status, w[t].responseTime))
  /\ w' = [w EXCEPT ![t].pc = "append"]
  /\ UNCHANGED <<wUnchanged, wg, mu, responseTimes>>

\* the goroutine sleeps with the mutex still locked
AfterAppendSleeps == "sleep"

\* what follows the append: mu.Unlock()
AfterAppend == "unlock"

\* *responseTimes = append(*responseTimes, responseTime)
WAppend(t) ==
  /\ proc = "running" /\ w[t].pc = "append"
  /\ responseTimes' = Append(responseTimes,
                        [thread |-> t, idx |-> w[t].i, ms |-> w[t].responseTime])
  /\ w' = [w EXCEPT ![t].pc = AfterAppend]
  /\ UNCHANGED <<wUnchanged, wg, mu, stdout>>

\* mu.Unlock()
WUnlock(t) ==
  /\ proc = "running" /\ w[t].pc = "unlock"
  /\ mu' = FALSE
  /\ w' = [w EXCEPT ![t].pc = "sleep"]
  /\ UNCHANGED <<wUnchanged, wg, responseTimes, stdout>>

\* time.Sleep(sleepTime); i++; the loop test.  slept counts the time.Sleep calls
\* that have returned
WSleep(t) ==
  /\ proc = "running" /\ w[t].pc = "sleep"
  /\ w' = [w EXCEPT ![t].i = @ + 1,
                    ![t].slept = @ + 1,
                    ![t].pc = LoopOrReturn(w[t].i + 1, w[t].numCalls)]
  /\ UNCHANGED <<wUnchanged, wg, mu, responseTimes, stdout>>

\* fetchData returns: the deferred wg.Done()
WDone(t) ==
  /\ proc = "running" /\ w[t].pc = "defer"
  /\ wg' = wg - 1
  /\ w' = [w EXCEPT ![t].pc = "exited"]
  /\ UNCHANGED <<wUnchanged, mu, responseTimes, stdout>>

\* the panicking goroutine runs its deferred wg.Done()
WPanicDefer(t) ==
  /\ proc = "running" /\ w[t].pc = "panicking"
  /\ wg' = wg - 1
  /\ w' = [w EXCEPT ![t].pc = "fatal"]
  /\ UNCHANGED <<wUnchanged, mu, responseTimes, stdout>>

\* no deferred call recovered: the panic ends the process
WFatal(t) ==
  /\ proc = "running" /\ w[t].pc = "fatal"
  /\ proc' = "panic"
  /\ UNCHANGED <<osArgs, pc, argi, config, engine, shared, stdout>>

Next ==
  \/ MainCheckArgs
  \/ MainCheckHelp
  \/ MainCheckURL
  \/ MainParseArg
  \/ MainParseDone
  \/ MainBuildTransport
  \/ MainPartition
  \/ MainLaunch
  \/ MainLaunchDone
  \/ MainWait
  \/ MainStats
  \/ MainSummary
  \/ MainCloseIdle
  \/ MainFinish
  \/ \E t \in Threads : WNewRequest(t)
  \/ \E t \in Threads : WHeader(t)
  \/ \E t \in Threads : WDo(t)
  \/ \E t \in Threads : WBody(t)
  \/ \E t \in Threads : WLock(t)
  \/ \E t \in Threads : WLog(t)
  \/ \E t \in Threads : WAppend(t)
  \/ \E t \in Threads : WUnlock(t)
  \/ \E t \in Threads : WSleep(t)
  \/ \E t \in Threads : WDone(t)
  \/ \E t \in Threads : WPanicDefer(t)
  \/ \E t \in Threads : WFatal(t)

Spec == Init /\ [][Next]_vars
(***************************************************************************)
(* Positions of a run.                                                     *)
(***************************************************************************)
\* main has computed callsPerGoroutine and remainderCalls
Partitioned ==
  tr.built /\ pc \in {"launch", "wait", "stats", "summary", "closeIdle", "finish",
                      "returned"}

\* main is past wg.Wait()
PastJoin ==
  tr.built /\ pc \in {"stats", "summary", "closeIdle", "finish", "returned"}

\* main has read responseTimes and computed the statistics
StatsComputed == tr.built /\ pc \in {"summary", "closeIdle", "finish", "returned"}

\* a goroutine was started
Started == \E t \in Threads : w[t].pc # "none"

\* goroutine t is between mu.Lock() and mu.Unlock()
InCritical(t) == w[t].pc \in {"log", "append", "unlock"}

\* the lines fetchData prints for a call
CallLines == SelectSeq(stdout, LAMBDA l : l.kind \in {"success", "failed"})

\* the number of calls to httpClient.Do that have returned
RECURSIVE CallsMade(_)
CallsMade(n) == IF n <= 0 THEN 0 ELSE Len(w[n - 1].calls) + CallsMade(n - 1)

\* -? or --help is among the arguments
HelpRequested == \E k \in 1..(NArgs - 1) : Arg(k) = HelpShort \/ Arg(k) = HelpLong

\* the last n lines printed are of these kinds, in this order
EndsWith(kinds) ==
  /\ Len(stdout) >= Len(kinds)
  /\ \A k \in 1..Len(kinds) : stdout[Len(stdout) - Len(kinds) + k].kind = kinds[k]

\* the count main gives goroutine i, and the sum over the first n goroutines
AssignedCalls(i) == NumCalls(i, callsPerGoroutine, remainderCalls)

RECURSIVE SumAssigned(_)
SumAssigned(n) == IF n <= 0 THEN 0 ELSE AssignedCalls(n - 1) + SumAssigned(n - 1)

\* strconv.Atoi accepts the token
ValidInteger(token) == Atoi(token).ok

\* the first argument lacks the "http" prefix, or the token after a value flag
\* is not a valid integer
BadArguments ==
  /\ NArgs >= 2
  /\ \/ ~HasPrefix(Arg(1), <<"h", "t", "t", "p">>)
     \/ \E k \in 2..(NArgs - 2) : Arg(k) \in ValueFlags /\ ~ValidInteger(Arg(k + 1))

(***************************************************************************)
(* C1: for totalCalls >= 0 and numThreads >= 1 the counts main assigns sum *)
(* to totalCalls, differ by at most 1, and the goroutines with the larger  *)
(* count are exactly the first totalCalls mod numThreads; a started        *)
(* goroutine runs with the count of its index.                             *)
(***************************************************************************)
C1_PartitionExact ==
  (Partitioned /\ totalCalls >= 0 /\ numThreads >= 1) =>
    LET ids  == 0..(numThreads - 1)
        base == totalCalls \div numThreads
        more == totalCalls % numThreads
    IN  /\ SumAssigned(numThreads) = totalCalls
        /\ \A i, j \in ids : AssignedCalls(i) - AssignedCalls(j) \in {-1, 0, 1}
        /\ \A i \in ids : AssignedCalls(i) = IF i < more THEN base + 1 ELSE base
        /\ Cardinality({i \in ids : AssignedCalls(i) = base + 1}) = more
        /\ \A t \in Threads : w[t].pc # "none" => w[t].numCalls = AssignedCalls(t)

\* every goroutine is started, and the first has one call more than the last
C1_Witness ==
  /\ pc = "wait" /\ totalCalls >= 0 /\ numThreads >= 2
  /\ remainderCalls > 0
  /\ \A t \in 0..(numThreads - 1) : w[t].pc # "none"
  /\ w[0].numCalls = w[numThreads - 1].numCalls + 1

(***************************************************************************)
(* C2: once main is past wg.Wait(), len(responseTimes) = totalCalls.       *)
(* Violated: a negative -totalCalls, a -numThreads below 1, and a          *)
(* goroutine that panics on its nil request leave the slice shorter.       *)
(***************************************************************************)
C2_LengthIsTotalCalls == PastJoin => Len(responseTimes) = totalCalls

(***************************************************************************)
(* C3: main is past wg.Wait() only when every goroutine has made all its   *)
(* assigned calls and called wg.Done(), and no goroutine can still append. *)
(* Violated: the deferred wg.Done() of a panicking goroutine lets main     *)
(* pass the join though the goroutine made none of its calls.              *)
(***************************************************************************)
C3_JoinAfterAllCalls ==
  PastJoin =>
    \A t \in Threads :
      t < numThreads =>
        /\ w[t].pc \in {"exited", "fatal"}
        /\ w[t].i >= w[t].numCalls
        /\ Len(w[t].calls) >= w[t].numCalls

(***************************************************************************)
(* C4: at most one goroutine is between mu.Lock() and mu.Unlock(), and     *)
(* the mutex is locked while one is.                                       *)
(***************************************************************************)
C4_MutualExclusion ==
  /\ \A s, t \in Threads : (InCritical(s) /\ InCritical(t)) => s = t
  /\ (\E t \in Threads : InCritical(t)) => mu

\* one goroutine holds the mutex while another waits in mu.Lock()
C4_Witness ==
  \E s, t \in Threads : s # t /\ InCritical(s) /\ w[t].pc = "lock"

(***************************************************************************)
(* C5: a goroutine that has stopped has made exactly numCalls calls, with  *)
(* the indices 0..numCalls-1 in order; while it runs, its calls are the    *)
(* indices so far, each once.                                              *)
(* Violated: a goroutine with a nil request stops with no call made, and   *)
(* one assigned a negative count makes none.                               *)
(***************************************************************************)
C5_ExactlyAssignedCalls ==
  \A t \in Threads :
    /\ \A k \in 1..Len(w[t].calls) : w[t].calls[k] = k - 1
    /\ w[t].pc \in {"exited", "fatal"} => Len(w[t].calls) = w[t].numCalls

(***************************************************************************)
(* C6: each call that was logged has one line, and a run that started its  *)
(* goroutines and has ended printed the three summary lines and then the   *)
(* completion line last.                                                   *)
(* Violated: the panic of a goroutine ends the process with no summary.    *)
(***************************************************************************)
C6_SummaryAlwaysPrinted ==
  /\ Len(CallLines) <= CallsMade(MaxThreads)
  /\ PastJoin => Len(CallLines) = CallsMade(MaxThreads)
  /\ (Started /\ proc # "running") =>
       EndsWith(<<"totalTime", "average", "perSecond", "finished">>)

(***************************************************************************)
(* C7: when responseTimes is empty after the join, the average reported is *)
(* a defined value, not the quotient of a sum by zero elements.            *)
(* Violated: the code divides 0 by float64(0), and prints NaN.             *)
(***************************************************************************)
C7_AverageDefinedWhenEmpty ==
  (StatsComputed /\ Len(responseTimes) = 0) =>
    /\ stats.averageResponseTime.den # 0
    /\ ~IsNaN(stats.averageResponseTime)

(***************************************************************************)
(* C8: a goroutine whose http.NewRequest failed reports it once, never     *)
(* uses the nil request, and the process does not panic.                   *)
(* Violated: request.Header.Add dereferences the nil request.              *)
(***************************************************************************)
C8_NilRequestShortCircuits ==
  \A t \in Threads :
    w[t].request = "nil" =>
      /\ w[t].pc \notin {"panicking", "fatal"}
      /\ w[t].calls = <<>>
      /\ proc # "panic"
      /\ Len(SelectSeq(stdout, LAMBDA l : l.kind = "errRequest" /\ l.thread = t)) = 1

(***************************************************************************)
(* C9: with no -? or --help among the arguments: when the first argument   *)
(* does not begin with "http", or the token after one of the five value    *)
(* flags is not a valid integer, no goroutine is ever started and no call  *)
(* made, and the process ends with an error line and the usage.            *)
(* Violated: -sleepTime, -requestTimeOut and -connectTimeOut are parsed by *)
(* time.ParseDuration, which accepts 1.5.                                  *)
(***************************************************************************)
C9_BadArgumentsNeverRun ==
  (BadArguments /\ ~HelpRequested) =>
    /\ ~Started
    /\ CallsMade(MaxThreads) = 0
    /\ proc # "running" =>
         /\ proc = "exited"
         /\ Len(stdout) = 2
         /\ stdout[1].kind \in {"errURL", "errInteger"}
         /\ stdout[2].kind = "usage"

(***************************************************************************)
(* C10: a started run ends in its final state: when the process of a       *)
(* started run has stopped, main has returned after printing the           *)
(* completion line, and every goroutine has returned from fetchData.       *)
(* Violated: the panic of a goroutine ends the process before that.        *)
(***************************************************************************)
C10_StartedRunFinishes ==
  (Started /\ proc # "running") =>
    /\ proc = "exited"
    /\ pc = "returned"
    /\ \A t \in Threads : w[t].pc \in {"none", "exited"}

(***************************************************************************)
(* C11: as the claim states it, CloseIdleConnections comes before the      *)
(* summary: whenever a summary line has been printed, the idle connections *)
(* are closed.                                                             *)
(* Violated: the three Printf (lines 219-221) come before the call         *)
(* (line 224).                                                             *)
(***************************************************************************)
\* the lines of the summary printed so far
SummaryLines ==
  SelectSeq(stdout, LAMBDA l : l.kind \in {"totalTime", "average", "perSecond"})

\* the completion line has been printed
MarkerPrinted == \E k \in 1..Len(stdout) : stdout[k].kind = "finished"

C11_CloseBeforeSummary == SummaryLines # <<>> => tr.idleClosed

(***************************************************************************)
(* C11, amended: main prints the three summary lines, then calls           *)
(* CloseIdleConnections, and only then prints the completion line.         *)
(***************************************************************************)
C11_SummaryCloseMarker ==
  /\ tr.idleClosed => Len(SummaryLines) = 3
  /\ MarkerPrinted =>
       /\ tr.idleClosed
       /\ EndsWith(<<"totalTime", "average", "perSecond", "finished">>)
  /\ (StatsComputed /\ pc = "closeIdle") =>
       /\ ~tr.idleClosed
       /\ EndsWith(<<"totalTime", "average", "perSecond">>)

\* main has returned from a run: summary, close, completion line
C11_Witness ==
  /\ pc = "returned" /\ tr.built /\ tr.idleClosed
  /\ EndsWith(<<"totalTime", "average", "perSecond", "finished">>)

(***************************************************************************)
(* C12: when -connectTimeOut is not among the arguments, the Transport is  *)
(* built with IdleConnTimeout = 3 * the request timeout the client is      *)
(* built with.                                                             *)
(* Violated: connectTimeOut is set to 3 * the default request timeout      *)
(* before the arguments are read (line 96), and -requestTimeOut does not   *)
(* change it.                                                              *)
(***************************************************************************)
\* -connectTimeOut is among the arguments
ConnectTimeOutGiven == \E k \in 1..(NArgs - 1) : Arg(k) = FlagConnectTimeOut

C12_IdleTimeoutFollowsRequestTimeout ==
  (tr.built /\ ~ConnectTimeOutGiven) => tr.IdleConnTimeout = 3 * tr.Timeout

(***************************************************************************)
(* C13: without -keepConnectsOpen, every response that is not nil has had  *)
(* its body copied to io.Discard and closed once the goroutine leaves the  *)
(* body step, so before mu.Lock() and before the next call; with           *)
(* -keepConnectsOpen no body is read or closed; a nil response adds none.  *)
(***************************************************************************)
C13_BodyHandledBeforeRecord ==
  \A t \in Threads :
    LET pending == IF w[t].pc = "body" /\ w[t].resp # "nil" THEN 1 ELSE 0
    IN  /\ keepConnectsOpen => (w[t].drained = 0 /\ w[t].closed = 0)
        /\ ~keepConnectsOpen =>
             /\ w[t].drained = w[t].responses - pending
             /\ w[t].closed = w[t].responses - pending

\* a response whose body was read and closed is about to be logged, and one
\* call of the goroutine before it had no response
C13_Witness ==
  \E t \in Threads :
    /\ w[t].pc = "log" /\ w[t].resp # "nil" /\ ~keepConnectsOpen
    /\ w[t].i = 1 /\ w[t].responses = 1 /\ w[t].closed = 1

\* goroutine t is in httpClient.Do, handles the body, or is in time.Sleep
OutsideLock(t) == w[t].pc \in {"do", "body", "sleep"}

(***************************************************************************)
(* C14: a goroutine that is in its HTTP call, handles a response body or   *)
(* sleeps does not hold the mutex: if the mutex is locked then, another    *)
(* goroutine is between mu.Lock() and mu.Unlock(); and when no goroutine   *)
(* is between them the mutex is free, so a goroutine in mu.Lock() can go   *)
(* on to record its result.                                                *)
(***************************************************************************)
C14_LockOnlyForLogAndAppend ==
  /\ \A t \in Threads :
       (OutsideLock(t) /\ mu) => \E s \in Threads : s # t /\ InCritical(s)
  /\ (\A s \in Threads : ~InCritical(s)) => (~mu /\ CanLock(mu))

\* a goroutine holds the mutex and records its result while another sleeps
C14_Witness ==
  \E s, t \in Threads : s # t /\ w[s].pc = "sleep" /\ w[t].pc = "log" /\ mu

\* the number of lines goroutine t has printed for its calls
LinesOf(t) == Len(SelectSeq(CallLines, LAMBDA l : l.thread = t))

\* the number of elements goroutine t has appended to responseTimes
AppendsOf(t) == Len(SelectSeq(responseTimes, LAMBDA r : r.thread = t))

\* the number of responses of goroutine t whose handling is over
BodiesHandled(t) ==
  IF w[t].pc = "body" /\ w[t].resp # "nil" THEN w[t].responses - 1 ELSE w[t].responses

(***************************************************************************)
(* C15: the calls of one goroutine are sequential.  When call i is about   *)
(* to start (the goroutine is at httpClient.Do with index i), each of its  *)
(* i earlier calls has returned, had its body handled, has been logged and *)
(* appended, and was followed by a sleep; from there to the end of the     *)
(* sleep exactly one call, the one with index i, is in progress, and its   *)
(* steps come in the order Do, body, log, append, sleep.                   *)
(***************************************************************************)
C15_CallsSequential ==
  \A t \in Threads :
    LET made == Len(w[t].calls)
    IN  /\ \A k \in 1..made : w[t].calls[k] = k - 1
        /\ w[t].slept = w[t].i
        /\ made - AppendsOf(t) \in {0, 1}
        /\ ~keepConnectsOpen => w[t].closed = BodiesHandled(t)
        /\ w[t].pc = "do" =>
             /\ made = w[t].i /\ LinesOf(t) = w[t].i /\ AppendsOf(t) = w[t].i
             /\ BodiesHandled(t) = w[t].responses
        /\ w[t].pc \in {"body", "lock", "log"} =>
             made = w[t].i + 1 /\ LinesOf(t) = w[t].i /\ AppendsOf(t) = w[t].i
        /\ w[t].pc = "append" =>
             made = w[t].i + 1 /\ LinesOf(t) = w[t].i + 1 /\ AppendsOf(t) = w[t].i
        /\ w[t].pc \in {"unlock", "sleep"} =>
             made = w[t].i + 1 /\ LinesOf(t) = w[t].i + 1 /\ AppendsOf(t) = w[t].i + 1

\* a goroutine is about to start its second call: the first is logged and
\* appended and its sleep is over
C15_Witness ==
  \E t \in Threads :
    /\ w[t].pc = "do" /\ w[t].i = 1 /\ w[t].slept = 1
    /\ LinesOf(t) = 1 /\ AppendsOf(t) = 1

(***************************************************************************)
(* C16: the k-th line printed for a call and the k-th element of           *)
(* responseTimes are of the same call: same goroutine, same index, same    *)
(* elapsed time.  There is at most one line more than there are elements,  *)
(* and then its goroutine is the one between its Printf and its append.    *)
(***************************************************************************)
C16_LogAndAppendSerialized ==
  /\ Len(CallLines) - Len(responseTimes) \in {0, 1}
  /\ \A k \in 1..Len(responseTimes) :
       /\ CallLines[k].thread = responseTimes[k].thread
       /\ CallLines[k].idx = responseTimes[k].idx
       /\ CallLines[k].ms = responseTimes[k].ms
  /\ Len(CallLines) = Len(responseTimes) + 1 =>
       LET l == CallLines[Len(CallLines)]
       IN  /\ l.thread \in Threads
           /\ w[l.thread].pc = "append"
           /\ w[l.thread].i = l.idx
           /\ w[l.thread].responseTime = l.ms
  /\ Len(CallLines) = Len(responseTimes) => \A t \in Threads : w[t].pc # "append"

\* one goroutine has logged and appended, then another has logged and is
\* about to append, with a different elapsed time
C16_Witness ==
  \E s, t \in Threads :
    /\ s # t /\ w[t].pc = "append"
    /\ Len(responseTimes) = 1 /\ responseTimes[1].thread = s
    /\ Len(CallLines) = 2 /\ CallLines[2].thread = t
    /\ CallLines[2].ms # CallLines[1].ms

(***************************************************************************)
(* C17: the line printed for a call shows what httpClient.Do returned for  *)
(* that call: "Request failed" with Do's error exactly when Do returned an *)
(* error, and otherwise "Success" with the status of that call's response. *)
(* Violated: without -keepConnectsOpen the result of resp.Body.Close() is  *)
(* assigned to err before the line is printed, so a failed redirect        *)
(* (response and error) is printed as "Success", and a call that returned  *)
(* no error is printed as "Request failed" when Close returns one.         *)
(***************************************************************************)
C17_LineShowsCallOutcome ==
  \A t \in Threads :
    w[t].pc = "append" =>
      LET l == CallLines[Len(CallLines)]
      IN  /\ l.thread = t /\ l.idx = w[t].i
          /\ w[t].doErr # "nil" => (l.kind = "failed" /\ l.detail = w[t].doErr)
          /\ w[t].doErr = "nil" => (l.kind = "success" /\ l.detail = w[t].resp)

(***************************************************************************)
(* C18: once the Transport is built, and so when the partition is          *)
(* computed, totalCalls >= 0 and numThreads >= 1, and the partition does   *)
(* not divide by zero.                                                     *)
(* Violated: the values of -totalCalls and -numThreads are only converted  *)
(* with strconv.Atoi, never compared with a limit, so 0 and negative       *)
(* numbers pass; -numThreads 0 is an integer division by zero.             *)
(***************************************************************************)
C18_CountsValidWhenEngineStarts ==
  tr.built =>
    /\ totalCalls >= 0
    /\ numThreads >= 1
    /\ ~(pc = "partition" /\ proc = "panic")

(***************************************************************************)
(* C19: parsing the arguments does not read past the end of os.Args: it    *)
(* ends in a usage or error exit or in a resolved configuration, never in  *)
(* a panic.                                                                *)
(* Violated: a value flag as the last argument makes the loop do i++ and   *)
(* read os.Args[i] with i = len(os.Args): index out of range.              *)
(***************************************************************************)
C19_ParsingNeverCrashes == ~(pc = "parseArgs" /\ proc = "panic")

====
